---------------------------- MODULE Spec2Model ----------------------------
(***************************************************************************)
(* Model of the Resonance Remain guild tracker.                            *)
(*                                                                         *)
(* Two scripts share one Google spreadsheet ("Test resonance", worksheet   *)
(* "Resonance_Remain"): GitHub_version.py (NuclearBrowserFarmTracker,      *)
(* entry point run_hardcore) and playwright_tracker.py                     *)
(* (PlaywrightWebSocketTracker, entry point run_async).  The state is the  *)
(* content of the worksheets the scripts read and write, the local files   *)
(* they write, the wall clock, and the position of the one invocation that *)
(* is in progress.  String literals that carry emoji in the source are     *)
(* written here without the emoji.                                         *)
(***************************************************************************)
EXTENDS Integers, Sequences, FiniteSets, TLC

(***************************************************************************)
(* Bounds of the model.                                                    *)
(***************************************************************************)
MaxTime == 1          \* the clock runs over 0..MaxTime seconds
TicksPerDay == 2      \* seconds per calendar day of the model clock
MaxMembers == 2       \* longest roster a user pastes into the backup sheet
MaxParses == 2        \* parser calls made on one page

VARIABLES
    now,              \* datetime.now(), in seconds
    main_exists,      \* worksheet "Resonance_Remain" exists in "Test resonance"
    main,             \* its rows (get_all_values); << >> when empty or absent
    backup_exists,    \* "ULTIMATE Guild Data Backup" / "Current_Guild_Data" exists
    backup,           \* rows of "Current_Guild_Data"
    automation,       \* rows of "Automation_Instructions"
    pw_instructions,  \* rows of "ULTIMATE Playwright Backup" / "ULTIMATE_Instructions"
    archive,          \* rows of the archive sheet of the data model
    local_files,      \* names of the files the scripts have written locally
    pc,               \* position of the invocation in progress, "idle" if none
    idx,              \* index into ultimate_approaches (1..5), 0 outside the loop
    guild_data,       \* the list last handed to update_spreadsheet
    updated,          \* what that call of update_spreadsheet returned
    outcome,          \* the return path the last invocation took
    departed,         \* names the last successful update removed from the sheet
    prev_main,        \* the main sheet as the last successful update found it
    page,             \* the page a parser is called on
    parses,           \* the results of the parser calls made on that page
    drivers,          \* the browser drivers that are open
    driver            \* the local variable driver of browser_farm_attempt

vars == <<now, main_exists, main, backup_exists, backup, automation,
          pw_instructions, archive, local_files, pc, idx, guild_data, updated,
          outcome, departed, prev_main, page, parses,
          drivers, driver>>

(***************************************************************************)
(* Time formatting.  strftime keeps the calendar day and the time of day;  *)
(* the formats with %H:%M:%S have second resolution, the date-only format  *)
(* does not distinguish two instants of the same day.                      *)
(***************************************************************************)
Day(t) == t \div TicksPerDay
Clock(t) == t % TicksPerDay

\* strftime("%d/%m/%Y")
DateStr(t) == "D" \o ToString(Day(t))

\* strftime("%d/%m/%Y_%H:%M:%S")
StampStr(t) == DateStr(t) \o "_" \o ToString(Clock(t))

\* strftime("%d/%m/%Y %H:%M:%S")
DateTimeStr(t) == DateStr(t) \o " " \o ToString(Clock(t))

\* strftime("Jan %d 2025")
JoinDateStr(t) == "Jan " \o ToString(Day(t)) \o " 2025"

\* f'Level_{...}': the label of the snapshot column written at time t
LevelColumn(t) == "Level_" \o StampStr(t)

\* every label a run can produce: the headers that start with "Level_"
LevelLabels == { LevelColumn(t) : t \in 0..MaxTime }

(***************************************************************************)
(* Member records and rosters.                                             *)
(***************************************************************************)
Member(rank, name, title, voc, level, joined) ==
    [Rank |-> rank, Name |-> name, Title |-> title, Vocation |-> voc,
     Level |-> level, JoiningDate |-> joined]

\* the one-record test roster every scraping approach returns on success
TestData(name, level, t) ==
    << Member("Leader", name, "", "Elite Knight", level, JoinDateStr(t)) >>

\* str(random.randint(lo, hi)), sampled at both ends of the range
RandLevel(lo, hi) == { ToString(lo), ToString(hi) }

\* the member name each configuration of each entry of ultimate_approaches
\* reports on success, in the order the configurations are tried
ConfigNames(i) ==
    CASE i = 1 -> <<"SUCCESS-Windows Ch", "SUCCESS-Mac Chrome",
                    "SUCCESS-Linux Chro", "SUCCESS-Windows Ch",
                    "SUCCESS-Firefox St">>
      [] i = 2 -> <<"PROXY-Standard H", "PROXY-Mobile Hea", "PROXY-Firefox St">>
      [] i = 3 -> <<"NUCLEAR-WARMING">>
      [] i = 4 -> <<"ULTRA-STEALTH-1", "ULTRA-STEALTH-2", "ULTRA-STEALTH-3">>
      [] OTHER -> <<"CURL-Standard c", "CURL-Wget Style", "CURL-Python Req">>

\* the configurations that get through in the model: the first of each list
Passing == {1}

\* the names of the configurations that may get through
ApproachNames(i) ==
    { ConfigNames(i)[k] : k \in Passing \cap (1..Len(ConfigNames(i))) }

ApproachLevels(i) ==
    CASE i = 1 -> RandLevel(100, 500)
      [] i = 2 -> RandLevel(100, 500)
      [] i = 3 -> {"999"}
      [] i = 4 -> RandLevel(200, 600)
      [] OTHER -> RandLevel(150, 400)

NumApproaches == 5

ApproachData(i, t) ==
    { TestData(n, l, t) : n \in ApproachNames(i), l \in ApproachLevels(i) }


(***************************************************************************)
(* Grids.  A grid is a sequence of rows, a row a sequence of string cells. *)
(***************************************************************************)
\* update_spreadsheet: headers
Headers(t) ==
    <<"Rank", "Name", "Title", "Vocation", "Level", "Joining Date", LevelColumn(t)>>

\* a row that leaves the base Level cell empty
MemberRow_nobase(m) ==
    <<m.Rank, m.Name, m.Title, m.Vocation, "", m.JoiningDate, m.Level>>

\* update_spreadsheet: row of one member
MemberRow(m) ==
    <<m.Rank, m.Name, m.Title, m.Vocation, m.Level, m.JoiningDate, m.Level>>

\* the rows written in the reverse of the list order
Rows_reversed(data, t) ==
    <<Headers(t)>> \o [i \in 1..Len(data) |-> MemberRow(data[Len(data) + 1 - i])]

\* update_spreadsheet: rows = [headers] + one row per member, in list order
Rows(data, t) ==
    <<Headers(t)>> \o [i \in 1..Len(data) |-> MemberRow(data[i])]

Blank10 == <<"", "", "", "", "", "", "", "", "", "">>
Note10(text) == <<text, "", "", "", "", "", "", "", "", "">>

\* ip_blocking_detected_solution: ip_block_data
ip_block_data(t) ==
    << <<"IP BLOCKING DETECTED", DateTimeStr(t), "", "", "", "", "">>,
       <<"Status", "BLOCKED - HTTP 403", "", "", "", "", "">>,
       <<"Solution", "VPN + Manual Entry", "", "", "", "", "">>,
       <<"Backup Sheet", "ULTIMATE Guild Data Backup", "", "", "", "", "">>,
       <<"Next Action", "Use VPN or different IP", "", "", "", "", "">> >>

\* ip_blocking_detected_solution: data_headers
data_headers ==
    <<"Date", "Rank", "Name", "Title", "Vocation", "Level", "Joining Date",
      "Status", "Notes", "Source Method">>

\* ip_blocking_detected_solution: template_row
template_row(t) ==
    <<DateStr(t), "Leader", "Example Member", "", "Elite Knight", "100",
      "Jan 01 2025", "Active", "Manual entry due to IP block", "VPN/Manual">>

\* ip_blocking_detected_solution: data_template
data_template(t) ==
    << data_headers,
       template_row(t),
       Blank10,
       Note10("INSTRUCTIONS:"),
       Note10("1. Access guild page with VPN/different IP"),
       Note10("2. Copy member data from website"),
       Note10("3. Paste one member per row here"),
       Note10("4. Run automation script to process") >>

\* ip_blocking_detected_solution: automation_instructions.  The sheet is
\* written and never read; its detection time is kept as the cell "time" and
\* the fixed text after the target guild is left out.
automation_instructions(t) ==
    << Note10("IP BLOCKING DETECTED - ULTIMATE AUTOMATION GUIDE"),
       Blank10,
       <<"Detection Time:", "time", "", "", "", "", "", "", "", "">>,
       <<"Target Guild:", "Resonance Remain", "", "", "", "", "", "", "", "">> >>

\* create_ultimate_backup_system: ultimate_instructions.  The sheet is
\* written and never read; its failure time is kept as the cell "time" and
\* the fixed text after it is left out.
ultimate_instructions(t) ==
    << Note10("PLAYWRIGHT + WEBSOCKET FAILED - ULTIMATE BACKUP"),
       Blank10,
       <<"Failed Time:", "time", "", "", "", "", "", "", "", "">> >>

\* process_backup_data: template_data + status_update, written after the
\* backup rows have been processed; headers is row 0 of the sheet as read
processed_template(headers, t) ==
    << headers,
       <<DateStr(t), "", "", "", "", "", "", "", "Ready for next entry", "">>,
       Blank10,
       <<"PROCESSED", DateTimeStr(t), "", "", "", "", "", "", "", "">>,
       Note10("Next run ready for new data") >>

\* a roster grid, as update_spreadsheet writes it: it starts with the header
IsRoster(g) == g /= << >> /\ g[1][1] = "Rank"

\* the names in the non-header rows of a grid
NameSet(g) == { g[i][2] : i \in 2..Len(g) }

\* the names of a member list
DataNames(data) == { data[i].Name : i \in 1..Len(data) }

\* the names of the roster in sheet that are absent from data
Departed(sheet, data) ==
    IF IsRoster(sheet) THEN NameSet(sheet) \ DataNames(data) ELSE {}

credentials_file == "credentials_oauth.json"
token_file == "token.pickle"


(***************************************************************************)
(* Store operations.  Every call to the sheet store may raise; a failure   *)
(* point names the call that raises, "none" that no call does.             *)
(***************************************************************************)
UpdateFailures == {"none", "auth", "clear", "update"}

\* update_spreadsheet that reports True although the write after the clear
\* failed
update_spreadsheet_trueonfail(data, t, fail, exists, sheet) ==
    CASE fail = "auth"   -> [ok |-> FALSE, exists |-> exists, sheet |-> sheet]
      [] fail = "clear"  -> [ok |-> FALSE, exists |-> TRUE,   sheet |-> sheet]
      [] fail = "update" -> [ok |-> TRUE,  exists |-> TRUE,   sheet |-> << >>]
      [] OTHER           -> [ok |-> TRUE,  exists |-> TRUE,   sheet |-> Rows(data, t)]

\* update_spreadsheet without worksheet.clear(): update(range_name='A1')
\* overwrites the first rows and leaves the rows below them in place
update_spreadsheet_noclear(data, t, fail, exists, sheet) ==
    LET rows == Rows(data, t)
    IN  CASE fail = "auth"   -> [ok |-> FALSE, exists |-> exists, sheet |-> sheet]
          [] fail = "clear"  -> [ok |-> FALSE, exists |-> TRUE,   sheet |-> sheet]
          [] fail = "update" -> [ok |-> FALSE, exists |-> TRUE,   sheet |-> sheet]
          [] OTHER           -> [ok |-> TRUE,  exists |-> TRUE,
                                 sheet |-> rows \o SubSeq(sheet, Len(rows) + 1, Len(sheet))]

\* update_spreadsheet(guild_data) run at time t on the main worksheet:
\* authorize and open (creating what is missing), build rows, clear, update.
\* Any exception is caught and turned into the return value False.
update_spreadsheet(data, t, fail, exists, sheet) ==
    CASE fail = "auth"   -> [ok |-> FALSE, exists |-> exists, sheet |-> sheet]
      [] fail = "clear"  -> [ok |-> FALSE, exists |-> TRUE,   sheet |-> sheet]
      [] fail = "update" -> [ok |-> FALSE, exists |-> TRUE,   sheet |-> << >>]
      [] OTHER           -> [ok |-> TRUE,  exists |-> TRUE,   sheet |-> Rows(data, t)]

IpFailures == {"none", "auth", "automation_update", "current_clear",
               "current_update", "main_open", "main_update"}

\* ip_blocking_detected_solution run at time t.  The outer try covers the
\* two sheets of the backup spreadsheet; the inner try covers the main
\* worksheet, which is looked up but never created here, and swallows its
\* own failures.  st is the record of the four sheets it may touch.
ip_blocking_detected_solution(t, fail, st) ==
    LET created == [st EXCEPT !.backup_exists = TRUE]
        s1 == [created EXCEPT !.automation = << >>]
        s2 == [created EXCEPT !.automation = automation_instructions(t)]
        s3 == [s2 EXCEPT !.backup = << >>]
        s4 == [s2 EXCEPT !.backup = data_template(t)]
        s5 == [s4 EXCEPT !.main = << >>]
        s6 == [s4 EXCEPT !.main = ip_block_data(t)]
    IN  CASE fail = "auth"              -> [ok |-> FALSE, st |-> st]
          [] fail = "automation_update" -> [ok |-> FALSE, st |-> s1]
          [] fail = "current_clear"     -> [ok |-> FALSE, st |-> s2]
          [] fail = "current_update"    -> [ok |-> FALSE, st |-> s3]
          [] fail = "main_open" \/ ~st.main_exists
                                        -> [ok |-> TRUE,  st |-> s4]
          [] fail = "main_update"       -> [ok |-> TRUE,  st |-> s5]
          [] OTHER                      -> [ok |-> TRUE,  st |-> s6]

\* process_backup_data: "if len(row) >= 7 and row[1] and row[2]" and
\* "if row[1] not in ['', 'INSTRUCTIONS:', 'Example Member']"
\* (Python indexes from 0, TLA+ from 1)
IsBackupMember(row) ==
    /\ Len(row) >= 7
    /\ row[2] /= ""
    /\ row[3] /= ""
    /\ row[2] \notin {"", "INSTRUCTIONS:", "Example Member"}

\* process_backup_data: the member built from one backup row
BackupMember(row) == Member(row[2], row[3], row[4], row[5], row[6], row[7])

\* process_backup_data: guild_data, from data[1:]
BackupGuildData(data) ==
    LET kept == SelectSeq(Tail(data), IsBackupMember)
    IN  [i \in 1..Len(kept) |-> BackupMember(kept[i])]

CreateFailures == {"none", "auth", "update"}

\* create_ultimate_backup_system of the Playwright tracker, run at time t
create_ultimate_backup_system(t, fail, sheet) ==
    CASE fail = "auth"   -> [ok |-> FALSE, sheet |-> sheet]
      [] fail = "update" -> [ok |-> FALSE, sheet |-> << >>]
      [] OTHER           -> [ok |-> TRUE,  sheet |-> ultimate_instructions(t)]


\* parse_guild_data_advanced: the one-record rosters of its three methods
PlaywrightMethods ==
    << [name |-> "WebSocket-", lo |-> 100, hi |-> 500],
       [name |-> "Advanced-Parser-", lo |-> 200, hi |-> 600],
       [name |-> "JS-Extract-", lo |-> 300, hi |-> 700] >>

PlaywrightData(t) ==
    UNION { { TestData(PlaywrightMethods[k].name \o ToString(t), l, t) :
                l \in RandLevel(PlaywrightMethods[k].lo, PlaywrightMethods[k].hi) } :
            k \in Passing \cap (1..Len(PlaywrightMethods)) }

(***************************************************************************)
(* What a user pastes into "Current_Guild_Data": one member per row.       *)
(***************************************************************************)
\* The names and the level a user types are free text; two names and one
\* level are tried (level changes come from the random levels of the scrapes).
ManualNames == {"Player1", "Player2"}
ManualLevels == {"100"}

ManualRow(name, level) ==
    <<"01/01/2025", "Member", name, "", "Elite Knight", level, "Jan 01 2025",
      "Active", "", "Manual">>

RECURSIVE ManualSheets(_)
\* the sheets with exactly n pasted rows under the header
ManualSheets(n) ==
    IF n = 0 THEN { <<data_headers>> }
    ELSE { Append(g, ManualRow(nm, lv)) :
             g \in ManualSheets(n - 1), nm \in ManualNames, lv \in ManualLevels }

(***************************************************************************)
(* Pages handed to the parsers.  A page is the set of phrases its content  *)
(* contains, the number of rows of each of its tables, in page order, and  *)
(* the text of the rows of its first table: one line per row, each line    *)
(* the sequence of its whitespace-separated tokens.                        *)
(***************************************************************************)
PageWords == {"leader", "member", "Elite Knight"}
PageTables == { << >>, <<1>>, <<2>>, <<1, 2>>, <<3>>, <<4>> }

HeaderLine == <<"Rank", "Name", "Vocation", "Level">>
JohnDoeLine == <<"Leader", "John", "Doe", "Elite", "Knight", "250", "Jan", "5", "2024">>
AnnLine == <<"Ann", "Bee", "Elite", "Knight", "300">>
BobLine == <<"Bob", "Cee", "Elite", "Knight", "301">>
CidLine == <<"Cid", "Dee", "Elite", "Knight", "302">>

\* the member tables tried: none, one row with an inline rank, three rows
\* without any rank marker, one row under a rank section header
PageLines ==
    { << >>,
      <<HeaderLine, JohnDoeLine>>,
      <<HeaderLine, AnnLine, BobLine, CidLine>>,
      <<HeaderLine, <<"Officer">>, AnnLine>> }

\* the phrases of PageWords that the text of the lines contains, lowercased
\* as page.content().lower() sees them
WordsOfLines(lines) ==
    UNION { {"Elite Knight" : k \in { k \in 1..(Len(lines[i]) - 1) :
                 lines[i][k] = "Elite" /\ lines[i][k + 1] = "Knight" }}
            \cup {"leader" : k \in { k \in 1..Len(lines[i]) :
                 lines[i][k] = "Leader" }} : i \in 1..Len(lines) }

\* the lines are the rows of the first table and their text is page content
ConsistentPage(p) ==
    p.lines /= << >> =>
        /\ p.tables /= << >>
        /\ p.tables[1] = Len(p.lines)
        /\ WordsOfLines(p.lines) \subseteq p.words

Pages ==
    { p \in [words : SUBSET PageWords, tables : PageTables, lines : PageLines] :
        ConsistentPage(p) }

\* no page has been loaded
BlankPage == [words |-> {}, tables |-> << >>, lines |-> << >>]

\* parse_guild_page(driver, config_name) called at time t: the page of the
\* driver is not looked at, the record is built from the configuration name,
\* a random level and the date
parse_guild_page(pg, name, level, t) == TestData(name, level, t)

\* parse_guild_data_advanced: the method (1..3) whose test succeeds first on
\* page pg, 0 when none does; exc is the set of methods that raise, which
\* "except: pass" turns into falling through to the next method
AdvancedMethod(pg, exc) ==
    LET first_rows == IF pg.tables = << >> THEN 0 ELSE pg.tables[1]
    IN  CASE 1 \notin exc /\ first_rows > 1 -> 1
          [] 2 \notin exc /\ pg.words \cap {"leader", "member"} /= {} -> 2
          [] 3 \notin exc /\ \E i \in 1..Len(pg.tables) : pg.tables[i] > 1 -> 3
          [] OTHER -> 0

\* parse_guild_data_advanced(page) called at time t, level the random level
\* drawn by the method k that returns
parse_guild_data_advanced(k, level, t) ==
    IF k = 0 THEN << >>
    ELSE TestData(PlaywrightMethods[k].name \o ToString(t), level, t)

(***************************************************************************)
(* Initial state: nothing has been created in the store, no file has been  *)
(* written, no invocation is in progress.                                  *)
(***************************************************************************)
\* driver = None
NoDriver == [config |-> 0, kind |-> "None"]

\* the driver of a kind created for configuration i of browser_configs
Driver(i, kind) == [config |-> i, kind |-> kind]

\* browser_configs[i]['browser']
ConfigBrowser(i) == IF i = 5 THEN "firefox" ELSE "chrome"

StoreInit ==
    /\ now = 0
    /\ main_exists = FALSE
    /\ main = << >>
    /\ backup_exists = FALSE
    /\ backup = << >>
    /\ automation = << >>
    /\ pw_instructions = << >>
    /\ archive = << >>
    /\ local_files = {}
    /\ pc = "idle"
    /\ idx = 0
    /\ guild_data = << >>
    /\ updated = FALSE
    /\ outcome = "none"
    /\ departed = {}
    /\ prev_main = << >>
    /\ drivers = {}
    /\ driver = NoDriver

Init ==
    /\ StoreInit
    /\ page = BlankPage
    /\ parses = << >>

\* the clock advances
Tick ==
    /\ now < MaxTime
    /\ pc /= "returned"
    /\ now' = now + 1
    /\ UNCHANGED <<drivers, driver, main_exists, main, backup_exists, backup, automation,
                   pw_instructions, archive, page, parses, local_files, pc, idx, guild_data,
                   updated, outcome, departed, prev_main>>

\* between invocations a user replaces the rows of the backup sheet
ManualEntry ==
    /\ pc = "idle"
    /\ backup_exists
    /\ \E n \in 1..MaxMembers : backup' \in ManualSheets(n)
    /\ UNCHANGED <<drivers, driver, now, main_exists, main, backup_exists, automation,
                   pw_instructions, archive, page, parses, local_files, pc, idx, guild_data,
                   updated, outcome, departed, prev_main>>

SetupResults == {"ok", "no_credentials", "oauth_failed"}

\* Steps 0-2 of run_hardcore and of run_async: setup_cloud_credentials,
\* validate_setup, check_google_permissions.  next is the step that follows.
Setup(next) ==
    /\ pc = "idle"
    /\ UNCHANGED <<guild_data, updated, idx>>
    /\ \E r \in SetupResults :
         CASE r = "no_credentials" ->
                /\ credentials_file \notin local_files
                /\ pc' = "returned"
                /\ outcome' = "setup_failed"
                /\ local_files' = local_files
           [] r = "oauth_failed" ->
                /\ pc' = "returned"
                /\ outcome' = "setup_failed"
                /\ local_files' = local_files \cup {credentials_file}
           [] OTHER ->
                /\ pc' = next
                /\ outcome' = "none"
                /\ local_files' = local_files \cup {credentials_file, token_file}
    /\ UNCHANGED <<drivers, driver, now, main_exists, main, backup_exists, backup, automation,
                   pw_instructions, archive, page, parses, departed, prev_main>>

\* run_hardcore, steps 0-2
StartHardcore == Setup("step3")

\* run_async, steps 0-2
StartPlaywright == Setup("pw_step3")


ProcessFailures == {"none", "auth", "reset_clear", "reset_update"}

\* run_hardcore, step 3: process_backup_data and the return that follows it.
\* pf is the failing store call of process_backup_data itself, uf the one
\* of the update_spreadsheet it calls.
ProcessBackupData ==
    /\ pc = "step3"
    /\ \E pf \in ProcessFailures, uf \in UpdateFailures :
         LET data == IF backup_exists /\ pf /= "auth" THEN backup ELSE << >>
             gd   == IF Len(data) < 2 THEN << >> ELSE BackupGuildData(data)
             u    == update_spreadsheet(gd, now, uf, main_exists, main)
         IN  IF gd = << >>
             THEN /\ pc' = "step4"
                  /\ UNCHANGED <<main_exists, main, backup, guild_data, updated,
                                 outcome, departed, prev_main>>
             ELSE /\ guild_data' = gd
                  /\ updated' = u.ok
                  /\ departed' = IF u.ok THEN Departed(main, gd) ELSE departed
                  /\ prev_main' = IF u.ok THEN main ELSE prev_main
                  /\ main_exists' = u.exists
                  /\ main' = u.sheet
                  /\ IF u.ok /\ pf \notin {"reset_clear", "reset_update"}
                     THEN /\ backup' = processed_template(data[1], now)
                          /\ pc' = "returned"
                          /\ outcome' = "backup_processed"
                     ELSE /\ backup' = IF u.ok /\ pf = "reset_update"
                                       THEN << >> ELSE backup
                          /\ pc' = "step4"
                          /\ outcome' = outcome
    /\ UNCHANGED <<drivers, driver, now, backup_exists, automation, pw_instructions, archive, page, parses,
                   local_files, idx>>

\* the sheets ip_blocking_detected_solution may touch
StoreState ==
    [main_exists |-> main_exists, main |-> main,
     backup_exists |-> backup_exists, backup |-> backup,
     automation |-> automation]

\* the effect of ip_blocking_detected_solution on the store
DeployUltimateSolution(fail) ==
    LET r == ip_blocking_detected_solution(now, fail, StoreState)
    IN  /\ main' = r.st.main
        /\ backup_exists' = r.st.backup_exists
        /\ backup' = r.st.backup
        /\ automation' = r.st.automation
        /\ UNCHANGED main_exists

WebsiteResponses == {"403", "200", "error"}

\* run_hardcore, step 4: the accessibility test of the website and, on
\* HTTP 403, ip_blocking_detected_solution and the return
TestWebsite ==
    /\ pc = "step4"
    /\ \E resp \in WebsiteResponses :
         IF resp = "403"
         THEN /\ \E f \in IpFailures : DeployUltimateSolution(f)
              /\ pc' = "returned"
              /\ idx' = 0
              /\ outcome' = "blocked"
         ELSE /\ pc' = "approach"
              /\ idx' = 1
              /\ UNCHANGED <<main_exists, main, backup_exists, backup,
                             automation, outcome>>
    /\ UNCHANGED <<drivers, driver, now, pw_instructions, archive, page, parses, local_files, guild_data,
                   updated, departed, prev_main>>

\* run_hardcore: one turn of the loop over ultimate_approaches.  An approach
\* that raises leaves the same state as one that returns [].
Approach ==
    /\ pc = "approach"
    /\ \E r \in {<< >>} \cup ApproachData(idx, now), uf \in UpdateFailures :
         LET u == update_spreadsheet(r, now, uf, main_exists, main)
             more == idx < NumApproaches
         IN  IF r = << >>
             THEN /\ pc' = IF more THEN "approach" ELSE "exhausted"
                  /\ idx' = IF more THEN idx + 1 ELSE 0
                  /\ UNCHANGED <<main_exists, main, guild_data, updated, outcome,
                                 departed, prev_main>>
             ELSE /\ guild_data' = r
                  /\ updated' = u.ok
                  /\ departed' = IF u.ok THEN Departed(main, r) ELSE departed
                  /\ prev_main' = IF u.ok THEN main ELSE prev_main
                  /\ main_exists' = u.exists
                  /\ main' = u.sheet
                  /\ pc' = IF u.ok THEN "returned"
                           ELSE IF more THEN "approach" ELSE "exhausted"
                  /\ idx' = IF ~u.ok /\ more THEN idx + 1 ELSE 0
                  /\ outcome' = IF u.ok THEN "success" ELSE outcome
    /\ UNCHANGED <<drivers, driver, now, backup_exists, backup, automation, pw_instructions,
                   archive, page, parses, local_files>>

\* run_hardcore: all approaches exhausted, ip_blocking_detected_solution
Exhausted ==
    /\ pc = "exhausted"
    /\ \E f \in IpFailures : DeployUltimateSolution(f)
    /\ pc' = "returned"
    /\ outcome' = "exhausted"
    /\ UNCHANGED <<drivers, driver, now, pw_instructions, archive, page, parses, local_files, idx, guild_data,
                   updated, departed, prev_main>>

\* run_async, step 3: playwright_websocket_approach, update_spreadsheet and,
\* when either fails, create_ultimate_backup_system
PlaywrightRun ==
    /\ pc = "pw_step3"
    /\ \E r \in {<< >>} \cup PlaywrightData(now), uf \in UpdateFailures,
          cf \in CreateFailures :
         LET u == update_spreadsheet(r, now, uf, main_exists, main)
             c == create_ultimate_backup_system(now, cf, pw_instructions)
         IN  /\ IF r = << >>
                THEN UNCHANGED <<main_exists, main, guild_data, updated, departed, prev_main>>
                ELSE /\ guild_data' = r
                     /\ updated' = u.ok
                     /\ departed' = IF u.ok THEN Departed(main, r) ELSE departed
                     /\ prev_main' = IF u.ok THEN main ELSE prev_main
                     /\ main_exists' = u.exists
                     /\ main' = u.sheet
             /\ IF r /= << >> /\ u.ok
                THEN /\ outcome' = "success"
                     /\ UNCHANGED pw_instructions
                ELSE /\ outcome' = "exhausted"
                     /\ pw_instructions' = c.sheet
    /\ pc' = "returned"
    /\ UNCHANGED <<drivers, driver, now, backup_exists, backup, automation, archive, page, parses,
                   local_files, idx>>

\* the process exits: the locals of the invocation are gone, the store and
\* the local files remain
Exit ==
    /\ pc = "returned"
    /\ pc' = "idle"
    /\ idx' = 0
    /\ guild_data' = << >>
    /\ updated' = FALSE
    /\ outcome' = "none"
    /\ departed' = {}
    /\ prev_main' = << >>
    /\ UNCHANGED <<drivers, driver, now, main_exists, main, backup_exists, backup, automation,
                   pw_instructions, archive, page, parses, local_files>>

Next ==
    \/ Tick
    \/ ManualEntry
    \/ StartHardcore
    \/ ProcessBackupData
    \/ TestWebsite
    \/ Approach
    \/ Exhausted
    \/ StartPlaywright
    \/ PlaywrightRun
    \/ Exit

Spec == Init /\ [][Next]_vars

(***************************************************************************)
(* The parsers on their own: one page, parsed up to MaxParses times while  *)
(* the clock runs.  Each entry of parses names the parser and its result.  *)
(***************************************************************************)
ParserInit ==
    /\ StoreInit
    /\ page \in Pages
    /\ parses = << >>

\* browser_farm_attempt: guild_data = self.parse_guild_page(driver, config['name'])
ParseGuildPage ==
    /\ Len(parses) < MaxParses
    /\ \E n \in ApproachNames(1), l \in RandLevel(100, 500) :
         parses' = Append(parses, [by |-> "parse_guild_page",
                                   out |-> parse_guild_page(page, n, l, now)])
    /\ UNCHANGED <<drivers, driver, now, main_exists, main, backup_exists, backup, automation,
                   pw_instructions, archive, local_files, pc, idx, guild_data,
                   updated, outcome, departed, prev_main, page>>

\* websocket_enhanced_scraping: await self.parse_guild_data_advanced(page)
ParseGuildDataAdvanced ==
    /\ Len(parses) < MaxParses
    /\ \E exc \in SUBSET {1, 2, 3} :
         LET k == AdvancedMethod(page, exc)
             levels == IF k = 0 THEN {""}
                       ELSE RandLevel(PlaywrightMethods[k].lo, PlaywrightMethods[k].hi)
         IN  \E l \in levels :
               parses' = Append(parses, [by |-> "parse_guild_data_advanced",
                                         out |-> parse_guild_data_advanced(k, l, now)])
    /\ UNCHANGED <<drivers, driver, now, main_exists, main, backup_exists, backup, automation,
                   pw_instructions, archive, local_files, pc, idx, guild_data,
                   updated, outcome, departed, prev_main, page>>

ParserNext ==
    \/ Tick
    \/ ParseGuildPage
    \/ ParseGuildDataAdvanced

ParserSpec == ParserInit /\ [][ParserNext]_vars

(***************************************************************************)
(* The browser farm on its own: browser_farm_approach loops over           *)
(* browser_configs (idx is the loop index), browser_farm_attempt creates a *)
(* driver, navigates and waits, and quits its driver in its finally block. *)
(***************************************************************************)
farm_frame ==
    <<now, main_exists, main, backup_exists, backup, automation,
      pw_instructions, archive, local_files, updated, outcome, departed,
      prev_main, page, parses>>

\* browser_farm_approach is called
BrowserFarmApproach ==
    /\ pc = "idle"
    /\ pc' = "farm_create"
    /\ idx' = 1
    /\ UNCHANGED <<drivers, driver, guild_data>>
    /\ UNCHANGED farm_frame

CreateResults == {"unavailable", "create_fails", "stealth_fails", "fails", "ok"}

\* create_browser_driver, first part.  For a chrome configuration: the
\* undetected Chrome, whose try block covers uc.Chrome(...) and
\* stealth(driver, ...); when stealth raises, the driver uc.Chrome opened is
\* neither returned nor quit and the regular Chrome is tried.  For the
\* firefox configuration: webdriver.Firefox(...).  A driver that is returned
\* becomes the driver of browser_farm_attempt; None ends the attempt.
CreateBrowserDriver ==
    /\ pc = "farm_create"
    /\ \E r \in CreateResults :
         IF ConfigBrowser(idx) = "chrome"
         THEN CASE r \in {"unavailable", "create_fails"} ->
                     /\ pc' = "farm_fallback"
                     /\ UNCHANGED <<drivers, driver>>
                [] r = "stealth_fails" ->
                     /\ pc' = "farm_fallback"
                     /\ drivers' = drivers \cup {Driver(idx, "uc")}
                     /\ UNCHANGED driver
                [] r = "ok" ->
                     /\ pc' = "farm_attempt"
                     /\ drivers' = drivers \cup {Driver(idx, "uc")}
                     /\ driver' = Driver(idx, "uc")
                [] OTHER -> FALSE
         ELSE CASE r = "fails" ->
                     /\ pc' = "farm_next"
                     /\ UNCHANGED <<drivers, driver>>
                [] r = "ok" ->
                     /\ pc' = "farm_attempt"
                     /\ drivers' = drivers \cup {Driver(idx, "firefox")}
                     /\ driver' = Driver(idx, "firefox")
                [] OTHER -> FALSE
    /\ UNCHANGED <<idx, guild_data>>
    /\ UNCHANGED farm_frame

\* create_browser_driver, fallback to the regular Chrome.  The name driver
\* of create_browser_driver is rebound or dropped here; released says
\* whether the undetected Chrome it held is closed when its last reference
\* goes, which the code leaves to the library.
CreateFallbackDriver ==
    /\ pc = "farm_fallback"
    /\ \E r \in {"fails", "ok"}, released \in BOOLEAN :
         LET kept == IF released THEN drivers \ {Driver(idx, "uc")} ELSE drivers
         IN  IF r = "ok"
             THEN /\ pc' = "farm_attempt"
                  /\ drivers' = kept \cup {Driver(idx, "chrome")}
                  /\ driver' = Driver(idx, "chrome")
             ELSE /\ pc' = "farm_next"
                  /\ drivers' = kept
                  /\ UNCHANGED driver
    /\ UNCHANGED <<idx, guild_data>>
    /\ UNCHANGED farm_frame

\* browser_farm_attempt after the driver exists: navigation, the wait loop
\* and parse_guild_page; whatever happens (data, timeout, exception), the
\* finally block quits the driver of the attempt
BrowserFarmAttempt ==
    /\ pc = "farm_attempt"
    /\ \E r \in {<< >>} \cup { parse_guild_page(page, ConfigNames(1)[idx], l, now) :
                                   l \in RandLevel(100, 500) } :
         /\ guild_data' = r
         /\ pc' = IF r = << >> THEN "farm_next" ELSE "farm_returned"
    /\ drivers' = drivers \ {driver}
    /\ driver' = NoDriver
    /\ UNCHANGED idx
    /\ UNCHANGED farm_frame

\* browser_farm_approach: the attempt returned nothing, the next
\* configuration is tried; after the last one the approach returns []
NextConfig ==
    /\ pc = "farm_next"
    /\ IF idx < Len(ConfigNames(1))
       THEN /\ idx' = idx + 1
            /\ pc' = "farm_create"
       ELSE /\ idx' = 0
            /\ pc' = "farm_returned"
    /\ UNCHANGED <<drivers, driver, guild_data>>
    /\ UNCHANGED farm_frame

FarmNext ==
    \/ BrowserFarmApproach
    \/ CreateBrowserDriver
    \/ CreateFallbackDriver
    \/ BrowserFarmAttempt
    \/ NextConfig

FarmSpec == Init /\ [][FarmNext]_vars

TypeOK ==
    /\ now \in 0..MaxTime
    /\ main_exists \in BOOLEAN
    /\ backup_exists \in BOOLEAN
    /\ pc \in {"idle", "step3", "step4", "approach", "exhausted", "pw_step3",
              "returned", "farm_create", "farm_fallback", "farm_attempt",
              "farm_next", "farm_returned"}
    /\ driver \in drivers \cup {NoDriver}
    /\ idx \in 0..NumApproaches
    /\ updated \in BOOLEAN
    /\ archive = << >>
    /\ page \in Pages
    /\ Len(parses) <= MaxParses


(***************************************************************************)
(* Vocabulary of the properties.                                           *)
(***************************************************************************)
SuccessOutcomes == {"success", "backup_processed"}

\* the step in which an invocation returns after a successful update
RunSucceeds ==
    /\ pc /= "returned"
    /\ pc' = "returned"
    /\ outcome' \in SuccessOutcomes

\* the steps in which update_spreadsheet may be called
UpdateSteps == {"step3", "approach", "pw_step3"}

\* the positions of the Level_* columns in the header of a grid
LevelColumns(g) ==
    IF g = << >> THEN {} ELSE { j \in 1..Len(g[1]) : g[1][j] \in LevelLabels }

\* the header cells of a grid
HeaderCells(g) ==
    IF g = << >> THEN {} ELSE { g[1][j] : j \in 1..Len(g[1]) }

\* the run's column label is not in the header yet, as it is whenever the
\* previous run wrote the sheet in an earlier second
FreshLabel == LevelColumn(now) \notin HeaderCells(main)

\* the last row of grid g that carries name n
RowOfName(g, n) ==
    g[CHOOSE i \in 2..Len(g) :
        g[i][2] = n /\ \A k \in (i + 1)..Len(g) : g[k][2] /= n]

\* the cell of member n in column j, empty when the row is too short
Cell(g, n, j) ==
    LET r == RowOfName(g, n) IN IF j <= Len(r) THEN r[j] ELSE ""

\* the names in the archive sheet
ArchivedNames(a) == { a[i][2] : i \in 1..Len(a) }

\* the files a script writes for its own authentication
AuthFiles == {credentials_file, token_file}

Step_C1_HistoryPreserved ==
    (RunSucceeds /\ IsRoster(main) /\ FreshLabel) =>
          \A j \in LevelColumns(main) :
            \E k \in LevelColumns(main') :
              /\ main'[1][k] = main[1][j]
              /\ \A n \in NameSet(main) \cap NameSet(main') :
                   Cell(main', n, k) = Cell(main, n, j)

(***************************************************************************)
(* C1: a run that writes the main sheet over a previous roster keeps every *)
(* Level_* column of the previous header, and keeps the cells of those     *)
(* columns for every member present before and after.                      *)
(***************************************************************************)
C1_HistoryPreserved == [][Step_C1_HistoryPreserved]_vars

Step_C2_BaseLevelImmutable ==
    (RunSucceeds /\ IsRoster(main) /\ FreshLabel) =>
          \A n \in NameSet(main) \cap NameSet(main') :
            Cell(main', n, 5) = Cell(main, n, 5)

(***************************************************************************)
(* C2: the base Level cell (column 5 of the row, Python index 4) of a      *)
(* member who stays in the roster never changes from run to run, so it     *)
(* stays the level of the member's first appearance.                       *)
(***************************************************************************)
C2_BaseLevelImmutable == [][Step_C2_BaseLevelImmutable]_vars

Step_C3_OneNewColumnPerRun ==
    (RunSucceeds /\ FreshLabel) =>
          Cardinality(LevelColumns(main')) =
            Cardinality(LevelColumns(main)) + 1

(***************************************************************************)
(* C3: a successful run whose column label is not yet in the header adds   *)
(* exactly one Level_* column to those the sheet already had, so that n    *)
(* runs from an absent grid leave n Level_* columns.                       *)
(***************************************************************************)
C3_OneNewColumnPerRun == [][Step_C3_OneNewColumnPerRun]_vars

Step_C4_DepartedArchived ==
    (RunSucceeds /\ IsRoster(main)) =>
          LET gone == Departed(main, guild_data') \ ArchivedNames(archive)
          IN  /\ Len(archive') = Len(archive) + Cardinality(gone)
              /\ SubSeq(archive', 1, Len(archive)) = archive
              /\ \A n \in gone :
                   \E i \in (Len(archive) + 1)..Len(archive') :
                     archive'[i] = SubSeq(RowOfName(main, n), 1, 6)
                                     \o <<DateStr(now), "Left Guild">>

(***************************************************************************)
(* C4: a run that finds names of the previous roster missing from the      *)
(* scrape appends to the archive, for each such name not yet archived,     *)
(* exactly one row: the first six cells of the member's previous row,      *)
(* today's date and "Left Guild"; it appends no other row.                 *)
(***************************************************************************)
C4_DepartedArchived == [][Step_C4_DepartedArchived]_vars

Step_C6_NoMemberLost ==
    (RunSucceeds /\ IsRoster(main)) =>
          NameSet(main) \subseteq (NameSet(main') \cup ArchivedNames(archive'))

(***************************************************************************)
(* C6: a successful run loses no member: every name of the roster it       *)
(* replaces is a row of the new roster or a row of the archive.            *)
(***************************************************************************)
C6_NoMemberLost == [][Step_C6_NoMemberLost]_vars

(***************************************************************************)
(* C7: when a run has returned after a successful update, the names in the *)
(* rows of the main sheet are exactly the names of the member list of that *)
(* run: members of the previous roster that are not in the list are gone.  *)
(***************************************************************************)
C7_RowsAreTheScrape ==
    (pc = "returned" /\ outcome \in SuccessOutcomes) =>
        /\ IsRoster(main)
        /\ NameSet(main) = DataNames(guild_data)

\* a successful run that removed a member of the previous roster
C7_Witness ==
    /\ pc = "returned"
    /\ outcome \in SuccessOutcomes
    /\ departed /= {}
    /\ departed \cap NameSet(main) = {}

Step_C8_WriteAllOrNothing ==
    pc \in UpdateSteps =>
          \/ main' = main
          \/ updated' /\ main' = Rows(guild_data', now)

(***************************************************************************)
(* C8: whatever store call fails, a step that calls update_spreadsheet     *)
(* leaves the main sheet either as it was or holding the complete new      *)
(* grid, never empty or partly written.                                    *)
(***************************************************************************)
C8_WriteAllOrNothing == [][Step_C8_WriteAllOrNothing]_vars

(***************************************************************************)
(* C9: when a run ends with a member list whose update failed, that list   *)
(* has been saved to a local file.                                         *)
(***************************************************************************)
C9_LocalFallback ==
    (pc = "returned" /\ guild_data /= << >> /\ ~updated) =>
        local_files \ AuthFiles /= {}

\* the six fixed base headers
BaseHeaders == <<"Rank", "Name", "Title", "Vocation", "Level", "Joining Date">>

\* the header row of a grid, empty when the grid is
HeaderOf(g) == IF g = << >> THEN << >> ELSE g[1]

IsLevelLabel(h) == h \in LevelLabels

\* the Level_* headers of a grid, in header order
LevelHeaders(g) == SelectSeq(HeaderOf(g), IsLevelLabel)

\* an invocation has returned after a successful update
Succeeded == pc = "returned" /\ outcome \in SuccessOutcomes

\* the rows of grid g that carry name n
RowsOfName(g, n) == { i \in 2..Len(g) : g[i][2] = n }

Step_C11_RoundTrip ==
    (/\ RunSucceeds
     /\ FreshLabel
     /\ \E t0 \in 0..MaxTime : main = Rows(guild_data', t0)) =>
          /\ Len(main') = Len(main)
          /\ main'[1] = Append(main[1], LevelColumn(now))
          /\ \A i \in 2..Len(main) :
               /\ Len(main'[i]) = Len(main[i]) + 1
               /\ SubSeq(main'[i], 1, Len(main[i])) = main[i]

(***************************************************************************)
(* C11: when the main sheet holds the grid a first run wrote for a member  *)
(* list and a later run succeeds on the identical list, the new grid has   *)
(* the same rows in the same order with every previous cell kept, and      *)
(* differs only by one more Level_* column at the end.                     *)
(***************************************************************************)
C11_RoundTrip == [][Step_C11_RoundTrip]_vars

Step_C12_NewMemberRow ==
    (RunSucceeds /\ FreshLabel /\ IsRoster(main)) =>
          \A i \in 1..Len(guild_data') :
            guild_data'[i].Name \notin NameSet(main) =>
              \E r \in RowsOfName(main', guild_data'[i].Name) :
                /\ main'[r][5] = guild_data'[i].Level
                /\ \E k \in LevelColumns(main') :
                     /\ main'[1][k] = LevelColumn(now)
                     /\ main'[r][k] = guild_data'[i].Level
                /\ \A j \in LevelColumns(main) :
                     \E k \in LevelColumns(main') :
                       /\ main'[1][k] = main[1][j]
                       /\ main'[r][k] = ""

(***************************************************************************)
(* C12: the row written for a member whose name is not in the previous     *)
(* roster holds the scraped level in the base Level cell and in the cell   *)
(* of the run's new Level_* column, and an empty string in the column of   *)
(* every Level_* header the previous roster had.                           *)
(***************************************************************************)
C12_NewMemberRow == [][Step_C12_NewMemberRow]_vars

(***************************************************************************)
(* C13: after a successful run the rows under the header are the members   *)
(* of the run's list, one row per member in list order, whatever the order *)
(* of the rows of the previous grid.                                       *)
(***************************************************************************)
C13_RowOrder ==
    Succeeded =>
        /\ Len(main) = Len(guild_data) + 1
        /\ \A i \in 1..Len(guild_data) :
             /\ SubSeq(main[i + 1], 1, 4) =
                  <<guild_data[i].Rank, guild_data[i].Name,
                    guild_data[i].Title, guild_data[i].Vocation>>
             /\ main[i + 1][6] = guild_data[i].JoiningDate

\* a successful run over a roster that held the same two names in the
\* opposite order
C13_Witness ==
    /\ Succeeded
    /\ IsRoster(prev_main)
    /\ Len(prev_main) = 3
    /\ Len(main) = 3
    /\ prev_main[2][2] /= prev_main[3][2]
    /\ main[2][2] = prev_main[3][2]
    /\ main[3][2] = prev_main[2][2]

Step_C14_HeaderOrder ==
    RunSucceeds =>
          main'[1] = BaseHeaders \o LevelHeaders(main)
                       \o (IF FreshLabel THEN <<LevelColumn(now)>> ELSE << >>)

(***************************************************************************)
(* C14: a successful run leaves as header the six base headers, then the   *)
(* Level_* headers the sheet already had in their order, then the run's    *)
(* own Level_* header last (once), so that the header lists the columns of *)
(* all successful runs oldest first.                                       *)
(***************************************************************************)
C14_HeaderOrder == [][Step_C14_HeaderOrder]_vars

(***************************************************************************)
(* C15: after a successful run no two rows of the main sheet carry the     *)
(* same name, and the row of a name carries the values of the last member  *)
(* of the run's list with that name.                                       *)
(***************************************************************************)
C15_UniqueNames ==
    Succeeded =>
        /\ \A i, j \in 2..Len(main) : main[i][2] = main[j][2] => i = j
        /\ \A i \in 1..Len(guild_data) :
             (\A k \in (i + 1)..Len(guild_data) :
                guild_data[k].Name /= guild_data[i].Name) =>
               SubSeq(RowOfName(main, guild_data[i].Name), 1, 4) =
                 <<guild_data[i].Rank, guild_data[i].Name,
                   guild_data[i].Title, guild_data[i].Vocation>>

(***************************************************************************)
(* C16: whenever no invocation is in the middle of its work, a main sheet  *)
(* that is not empty starts with a header row whose first six cells are    *)
(* the base headers, whatever the outcomes of the invocations so far.      *)
(***************************************************************************)
C16_HeaderAlways ==
    (pc \in {"idle", "returned"} /\ main /= << >>) =>
        /\ Len(main[1]) >= 6
        /\ SubSeq(main[1], 1, 6) = BaseHeaders

(***************************************************************************)
(* C17: a run that finds no previous grid succeeds as a first run: the     *)
(* header is the six base headers and one Level_* column, every member of  *)
(* the list has its row with its six fields and its level in the new       *)
(* column, and the archive gets no row.                                    *)
(***************************************************************************)
C17_FirstRun ==
    (Succeeded /\ prev_main = << >>) =>
        /\ Len(main[1]) = 7
        /\ SubSeq(main[1], 1, 6) = BaseHeaders
        /\ main[1][7] = LevelColumn(now)
        /\ Len(main) = Len(guild_data) + 1
        /\ \A i \in 1..Len(guild_data) :
             main[i + 1] =
               <<guild_data[i].Rank, guild_data[i].Name, guild_data[i].Title,
                 guild_data[i].Vocation, guild_data[i].Level,
                 guild_data[i].JoiningDate, guild_data[i].Level>>
        /\ archive = << >>

\* a first run that wrote two members
C17_Witness ==
    /\ Succeeded
    /\ prev_main = << >>
    /\ Len(guild_data) = 2
    /\ Len(main) = 3

\* the vocation phrases a page can contain
VocationPhrases == {"Elite Knight"}

(***************************************************************************)
(* C19: a parser call on a page that contains no vocation phrase returns   *)
(* no member record.                                                       *)
(***************************************************************************)
C19_NoVocationNoRecord ==
    (page.words \cap VocationPhrases = {}) =>
        \A i \in 1..Len(parses) : parses[i].out = << >>

(***************************************************************************)
(* C20: two calls of the same parser on the same page return the same      *)
(* record list, whatever the time of the calls and the random draws.       *)
(***************************************************************************)
C20_ParseDeterministic ==
    \A i, j \in 1..Len(parses) :
        parses[i].by = parses[j].by => parses[i].out = parses[j].out

(***************************************************************************)
(* The line extraction the parser claims are about, on token sequences.    *)
(***************************************************************************)
RankLabels ==
    { <<"Leader">>, <<"Vice", "Leader">>, <<"Officer">>, <<"High", "Member">>,
      <<"Member">> }

VocationTokens == { <<"Elite", "Knight">> }

NumericTokens == {"250", "5", "2024", "300", "301", "302"}

RECURSIVE JoinTokens(_)
\* the tokens joined by single spaces
JoinTokens(toks) ==
    IF toks = << >> THEN ""
    ELSE IF Len(toks) = 1 THEN toks[1]
    ELSE toks[1] \o " " \o JoinTokens(Tail(toks))

\* the rank labels that line starts with, followed by more tokens
InlineRanks(line) ==
    { r \in RankLabels : Len(line) > Len(r) /\ SubSeq(line, 1, Len(r)) = r }

\* the line without its leading rank prefix
StripRank(line) ==
    IF InlineRanks(line) = {} THEN line
    ELSE LET r == CHOOSE r \in InlineRanks(line) : TRUE
         IN  SubSeq(line, Len(r) + 1, Len(line))

\* the positions at which a vocation phrase starts in toks
VocationStarts(toks) ==
    { i \in 1..Len(toks) :
        \E v \in VocationTokens :
          i + Len(v) - 1 <= Len(toks) /\ SubSeq(toks, i, i + Len(v) - 1) = v }

\* the position of the first vocation match
FirstVocation(toks) ==
    CHOOSE i \in VocationStarts(toks) : \A k \in VocationStarts(toks) : i <= k

\* the line passes extraction: at least four tokens, a vocation phrase, and
\* a name before it
PassesExtraction(line) ==
    LET toks == StripRank(line)
    IN  /\ Len(toks) >= 4
        /\ VocationStarts(toks) /= {}
        /\ FirstVocation(toks) > 1

ExtractName(line) ==
    LET toks == StripRank(line)
    IN  JoinTokens(SubSeq(toks, 1, FirstVocation(toks) - 1))

\* the first purely numeric token after the vocation phrase, "" if none
ExtractLevel(line) ==
    LET toks == StripRank(line)
        from == FirstVocation(toks) + 2
        nums == { i \in from..Len(toks) : toks[i] \in NumericTokens }
    IN  IF nums = {} THEN ""
        ELSE toks[CHOOSE i \in nums : \A k \in nums : i <= k]

\* the lines after the header line that pass extraction, in order
PassingLines(lines) ==
    IF lines = << >> THEN << >> ELSE SelectSeq(Tail(lines), PassesExtraction)

\* the positions of the lines that are rank markers: a rank section header
\* or a member line with an inline rank prefix
RankMarkers(lines) ==
    { j \in 2..Len(lines) : lines[j] \in RankLabels \/ InlineRanks(lines[j]) /= {} }

\* the rank a marker line sets
MarkerRank(line) ==
    IF line \in RankLabels THEN JoinTokens(line)
    ELSE JoinTokens(CHOOSE r \in InlineRanks(line) : TRUE)

\* positionalRank(N), N the number of member lines accumulated so far
PositionalRank(n) ==
    IF n <= 1 THEN "Leader"
    ELSE IF n <= 7 THEN "Vice Leader"
    ELSE IF n <= 14 THEN "Officer"
    ELSE IF n <= 29 THEN "High Member"
    ELSE "Member"

\* the number of member lines among lines[2..j]
MemberIndex(lines, j) ==
    Cardinality({ m \in 2..j : PassesExtraction(lines[m]) })

\* the rank of the member line at position j: the last marker up to j
ExpectedRank(lines, j) ==
    LET seen == { m \in RankMarkers(lines) : m <= j }
    IN  IF seen = {} THEN PositionalRank(MemberIndex(lines, j) - 1)
        ELSE MarkerRank(lines[CHOOSE m \in seen : \A k \in seen : k <= m])

(***************************************************************************)
(* C21: a parser call on a page with a member table returns one record per *)
(* line that passes extraction; the record's name is the tokens before the *)
(* first vocation match (after the rank prefix), joined by single spaces,  *)
(* and its level is the first numeric token after the vocation phrase.     *)
(***************************************************************************)
C21_NameExtraction ==
    \A i \in 1..Len(parses) :
        LET out == parses[i].out
            pl  == PassingLines(page.lines)
        IN  page.lines /= << >> =>
              /\ Len(out) = Len(pl)
              /\ \A k \in 1..Len(pl) :
                   /\ out[k].Name = ExtractName(pl[k])
                   /\ out[k].Level = ExtractLevel(pl[k])

(***************************************************************************)
(* C22: on a table without any rank marker, the k-th member line gets the  *)
(* rank of its position: Leader for the first two, Vice Leader for the     *)
(* next six, Officer for the next seven, High Member for the next fifteen, *)
(* Member after that.                                                      *)
(***************************************************************************)
C22_PositionalRank ==
    \A i \in 1..Len(parses) :
        LET out == parses[i].out
            pl  == PassingLines(page.lines)
        IN  (page.lines /= << >> /\ RankMarkers(page.lines) = {}) =>
              \A k \in 1..Len(pl) :
                /\ k <= Len(out)
                /\ out[k].Rank = PositionalRank(k - 1)

(***************************************************************************)
(* C23: on a table with rank markers, a line that equals a rank label      *)
(* yields no record, and the record of a member line carries the rank of   *)
(* the last marker at or before it: its own inline prefix, else the        *)
(* section header or inline prefix seen last.                              *)
(***************************************************************************)
C23_CurrentRank ==
    \A i \in 1..Len(parses) :
        LET out == parses[i].out
            lines == page.lines
        IN  (lines /= << >> /\ RankMarkers(lines) /= {}) =>
              /\ Len(out) = Len(PassingLines(lines))
              /\ \A j \in 2..Len(lines) :
                   PassesExtraction(lines[j]) =>
                     /\ MemberIndex(lines, j) <= Len(out)
                     /\ out[MemberIndex(lines, j)].Rank = ExpectedRank(lines, j)

(***************************************************************************)
(* C25: the example row and the instruction rows of the backup template    *)
(* never become guild members: no member list handed to update_spreadsheet *)
(* and no roster in the main sheet holds the name "Example Member".        *)
(***************************************************************************)
C25_TemplateRowsSkipped ==
    /\ "Example Member" \notin DataNames(guild_data)
    /\ IsRoster(main) => "Example Member" \notin NameSet(main)

Step_C26_NoDataNoChange ==
    (/\ pc /= "returned"
     /\ pc' = "returned"
     /\ outcome' \in {"blocked", "exhausted"}
     /\ guild_data' = << >>) => main' = main

(***************************************************************************)
(* C26: an invocation that ends blocked or with all approaches exhausted   *)
(* without having obtained any member list leaves the main sheet as it     *)
(* was.                                                                    *)
(***************************************************************************)
C26_NoDataNoChange == [][Step_C26_NoDataNoChange]_vars

Step_C27_UpdateReturns ==
    (pc \in UpdateSteps /\ now' = now) =>
          /\ (updated' /\ <<guild_data', updated'>> /= <<guild_data, updated>>) =>
               /\ main_exists'
               /\ main' = Rows(guild_data', now)
          /\ (main' /= main /\ main' /= Rows(guild_data', now)) => ~updated'
          /\ pc' \in {"step4", "approach", "exhausted", "returned"}

(***************************************************************************)
(* C27: a step that calls update_spreadsheet always continues with the     *)
(* caller's next position; when the call returns True the worksheet exists *)
(* and holds the complete new grid, and when the sheet was cleared but not *)
(* written the call returns False.                                         *)
(***************************************************************************)
C27_UpdateReturns == [][Step_C27_UpdateReturns]_vars

\* an update that failed after the clear: the caller got False and moved on
C27_Witness ==
    /\ guild_data /= << >>
    /\ ~updated
    /\ main_exists
    /\ main = << >>
    /\ pc \in {"approach", "exhausted"}

(***************************************************************************)
(* C28: while browser_farm_approach runs, at most one browser driver is    *)
(* open, and none is open between two attempts or after the approach has   *)
(* returned.                                                               *)
(***************************************************************************)
C28_OneDriver ==
    /\ Cardinality(drivers) <= 1
    /\ pc \in {"farm_create", "farm_next", "farm_returned"} => drivers = {}

Step_C29_ApproachOrder ==
    /\ (pc = "step4" /\ pc' = "approach") => idx' = 1
    /\ (pc = "approach" /\ now' = now) =>
         /\ idx \in 1..NumApproaches
         /\ pc' = "approach" => (idx' = idx + 1 /\ outcome' /= "success")
         /\ idx' \in {0, idx + 1}
    /\ (RunSucceeds /\ outcome' = "success") => ~updated

(***************************************************************************)
(* C29: the approaches are tried in the order of ultimate_approaches, from *)
(* the first, each at most once; the next one is tried only when the       *)
(* current one did not end in a successful update; and a successful update *)
(* made by an approach is the only successful write of its invocation.     *)
(***************************************************************************)
C29_ApproachOrder == [][Step_C29_ApproachOrder]_vars

\* the backup sheet holds no row that process_backup_data turns into a member
NoBackupMembers(b) == Len(b) < 2 \/ BackupGuildData(b) = << >>

Step_C30_BackupOnce ==
    (pc = "step3" /\ updated') => NoBackupMembers(backup')

(***************************************************************************)
(* C30: once process_backup_data has written the backup rows to the main   *)
(* sheet, the backup sheet holds no member row any more, so that a later   *)
(* invocation without new manual entry does not process them again.        *)
(***************************************************************************)
C30_BackupOnce == [][Step_C30_BackupOnce]_vars

=============================================================================
